---- MODULE Spec2Model ----
(***************************************************************************)
(* SmartTask: the task lifecycle and notification logic of routes.py over  *)
(* the relational store declared in models.py.                             *)
(*                                                                         *)
(* One action per request handler.  A handler runs inside one request and  *)
(* its session is discarded at the end of the request, so what an action   *)
(* leaves in the variables is what the handler committed.                  *)
(***************************************************************************)
EXTENDS Integers, Sequences, FiniteSets, TLC

VARIABLES
    fk_enforced,    \* whether the deployed store enforces the declared foreign keys
    tasks,          \* table task: id -> row
    comments,       \* table comment: a set of rows
    attachments,    \* table attachment: a set of rows
    notifications,  \* table notification: a sequence of rows, the index is the id
    now,            \* the value datetime.utcnow() returns
    response,       \* what the last request answered
    mail_log,       \* the calls of send_task_notification_email made by the last request
    was_read,       \* history: the notification the last request named was read before it
    ai,             \* a request to one of the AI endpoints and what it returned
    sessions        \* the requests that run concurrently, each in its database session

vars == <<fk_enforced, tasks, comments, attachments,
          notifications, now, response, mail_log, was_read, ai, sessions>>

store == <<tasks, comments, attachments, notifications>>

----------------------------------------------------------------------------
(* Bounds of the model. *)

\* Every stored comment and attachment came with a notification, so the bound
\* on the notifications bounds these two tables too. MaxNotifications bounds
\* the table under the requests of Spec, which carry every form; MaxThread
\* bounds it in the handlers, for the longer histories of SpecThread.
MaxTasks == 1
MaxNotifications == 2
MaxThread == 3
MaxClock == 1

----------------------------------------------------------------------------
(* Values. *)

\* request.form.get(...) of a field the request does not carry, and SQL NULL
Null == "<null>"

\* A user id the form can carry although no row of table user has it.
DanglingUser == 9

\* request.form.get('client_id') of a request that carries none
NoClient == 0

Clients == {1, 2}
Admins == {3, 4}
Users == Admins \cup Clients

\* User.role
Role(u) == IF u \in Admins THEN "admin" ELSE "client"

\* User.email; the register handler accepts an empty address.
Email(u) == IF u = 2 THEN "" ELSE "addr"

\* User.query.get(id) finds a row
UserExists(id) == id \in Users

Statuses == {"pending", "in-progress", "completed"}
Priorities == {"low", "medium", "high"}

----------------------------------------------------------------------------
(* The deadline text of a form and datetime.strptime(text, '%Y-%m-%dT%H:%M'). *)

\* A deadline text: the layout it is written in and the numbers it carries.
DeadlineText(layout, y, mo, d, h, mi) ==
    [layout |-> layout, y |-> y, mo |-> mo, d |-> d, h |-> h, mi |-> mi]

\* request.form.get('deadline') of a request that carries none
NoDeadlineText == DeadlineText("absent", 0, 0, 0, 0, 0)

IsLeap(y) == (y % 4 = 0 /\ y % 100 # 0) \/ y % 400 = 0

DaysInMonth(y, mo) ==
    IF mo = 2 THEN (IF IsLeap(y) THEN 29 ELSE 28)
    ELSE IF mo \in {4, 6, 9, 11} THEN 30 ELSE 31

\* strptime raises ValueError unless the text has the format's layout and
\* its numbers are a date and a time of day.
StrptimeOk(text) ==
    /\ text.layout = "Y-m-dTH:M"
    /\ text.y \in 1..9999
    /\ text.mo \in 1..12
    /\ text.d \in 1..DaysInMonth(text.y, text.mo)
    /\ text.h \in 0..23
    /\ text.mi \in 0..59

\* The datetime strptime returns; <<>> is the NULL of column deadline.
Strptime(text) == <<text.y, text.mo, text.d, text.h, text.mi>>

NoDeadline == <<>>

\* "if deadline_str:" is false for a missing and for an empty text
DeadlineGiven(text) == text.layout # "absent"

----------------------------------------------------------------------------
(* The form of new_task and edit_task. *)

FormClientIds == {NoClient, 1, 2, 3, DanglingUser}

ValidDeadlineText == DeadlineText("Y-m-dTH:M", 2025, 6, 30, 17, 0)

TaskForm(title, description, service_type, priority, deadline, client_id) ==
    [title |-> title, description |-> description,
     service_type |-> service_type, priority |-> priority,
     deadline |-> deadline, client_id |-> client_id]

\* The forms submitted: each of these contents with each client id.
TaskForms ==
    UNION {
      { TaskForm("T1", "D1", "S1", Null, NoDeadlineText, c),
        TaskForm("T2", Null, Null, "high", ValidDeadlineText, c),
        TaskForm("T1", "D1", "S1", "urgent", ValidDeadlineText, c),
        TaskForm(Null, "D1", "S1", "high", NoDeadlineText, c),
        TaskForm("T2", Null, Null, "high",
                 DeadlineText("Y-m-dTH:M", 2025, 13, 1, 9, 0), c),
        TaskForm("T1", "D1", "S1", Null,
                 DeadlineText("Y-m-d", 2025, 6, 30, 0, 0), c) }
      : c \in FormClientIds }

----------------------------------------------------------------------------
(* The store: the constraints models.py declares. *)

\* Task: title, priority, status, client_id and creator_id are nullable=False
TaskNotNullOk(row) ==
    /\ row.title # Null
    /\ row.priority # Null
    /\ row.status # Null
    /\ row.client_id # NoClient
    /\ row.creator_id # NoClient

\* Task.client_id and Task.creator_id are ForeignKey('user.id')
TaskForeignKeysOk(row) ==
    fk_enforced => UserExists(row.client_id) /\ UserExists(row.creator_id)

\* db.session.commit() of a task row raises IntegrityError unless both hold
TaskCommitOk(row) == TaskNotNullOk(row) /\ TaskForeignKeysOk(row)

\* The primary key the store gives the next row of a table: one more than
\* the largest in use.
NextId(ids) == IF ids = {} THEN 1 ELSE 1 + CHOOSE i \in ids : \A j \in ids : j <= i

\* Task.query.get_or_404(task_id) finds a row
TaskExists(t) == t \in DOMAIN tasks

\* Notification.task_id is ForeignKey('task.id') with no cascade: a store that
\* enforces it refuses to delete a task a notification refers to.
TaskDeleteOk(t) ==
    fk_enforced => \A i \in 1..Len(notifications) : notifications[i].task_id # t

\* The ids the requests name: those of the stored rows, and one that no row
\* has.
TaskIds == DOMAIN tasks \cup {NextId(DOMAIN tasks)}
NotificationIds == 1..(Len(notifications) + 1)

----------------------------------------------------------------------------
(* Notifications and email. *)

Notification(title, message, user_id, task_id) ==
    [title |-> title, message |-> message, is_read |-> FALSE,
     user_id |-> user_id, task_id |-> task_id]

\* The outcomes of send_task_notification_email(to, ...): the early return
\* for an empty address, mail.send returning, mail.send raising.
SendOutcomes(to) == IF to = "" THEN {"no_recipient"} ELSE {"sent", "failed"}

\* No except clause: what mail.send raises reaches the handler.
SendRaisesUncaught(outcome) == outcome = "failed"

\* The except clause of send_task_notification_email catches what mail.send
\* raises: nothing is raised to the handler.
SendRaises(outcome) == FALSE

MailAttempt(u, subject, body, outcome) ==
    [to |-> u, subject |-> subject, body |-> body, outcome |-> outcome]

\* "client = User.query.get(id); if client: send_task_notification_email(...)"
MailLogs(u, subject, body) ==
    IF UserExists(u)
    THEN { <<MailAttempt(u, subject, body, o)>> : o \in SendOutcomes(Email(u)) }
    ELSE { <<>> }

MailRaised(log) == \E i \in 1..Len(log) : SendRaises(log[i].outcome)

Response(op, user, target, result) ==
    [op |-> op, user |-> user, target |-> target, result |-> result]

\* A request that ends before it commits anything: the session is discarded.
Rejected(op, u, target, result) ==
    /\ response' = Response(op, u, target, result)
    /\ mail_log' = <<>>
    /\ UNCHANGED <<fk_enforced, tasks, comments, attachments,
                   notifications, now>>

\* The answer of a handler that reached its end, or the 500 of one that an
\* exception left.
Answer(op, u, target, result, log) ==
    Response(op, u, target, IF MailRaised(log) THEN "error_500" ELSE result)

----------------------------------------------------------------------------
(* Access control. *)

\* auth.admin_required and auth.client_required
AdminRequired(u) == Role(u) = "admin"
ClientRequired(u) == Role(u) = "client"

\* The ownership check of edit_task and delete_task left out
IsCreatorUnchecked(u, task) == TRUE

\* "task.creator_id != current_user.id" of edit_task and delete_task
IsCreator(u, task) == task.creator_id = u

\* The ownership check of update_task_status left out
IsAssigneeUnchecked(u, task) == TRUE

\* "task.client_id != current_user.id" of update_task_status
IsAssignee(u, task) == task.client_id = u

\* Every client passes, assigned to the task or not
IsPartyAnyClient(u, task) == Role(u) = "client" \/ u = task.creator_id

\* add_comment, upload_attachment: the assigned client and the creator
IsParty(u, task) == u = task.client_id \/ u = task.creator_id

----------------------------------------------------------------------------
(* new_task *)

\* Task(...) of new_task and the column defaults the INSERT applies: a None
\* priority takes the default 'medium'; the status is the literal 'pending'.
NewTaskRow(form, u, created, updated) ==
    [title |-> form.title,
     description |-> form.description,
     service_type |-> form.service_type,
     priority |-> IF form.priority = Null THEN "medium" ELSE form.priority,
     deadline |-> IF DeadlineGiven(form.deadline) THEN Strptime(form.deadline)
                  ELSE NoDeadline,
     client_id |-> form.client_id,
     creator_id |-> u,
     status |-> "pending",
     created_at |-> created,
     updated_at |-> updated]

\* The notification and the email addressed to current_user
NewTaskRecipientCreator(form, u) == u

\* "user_id=client_id" of the notification and User.query.get(client_id) of
\* the email
NewTaskRecipient(form, u) == form.client_id

NewTaskMessage(title) == <<"You have been assigned a new task", title>>

NewTaskResult(u, form) ==
    IF ~AdminRequired(u) THEN "forbidden"
    ELSE IF form.title = Null \/ form.client_id = NoClient THEN "missing_fields"
    ELSE IF DeadlineGiven(form.deadline) /\ ~StrptimeOk(form.deadline)
        THEN "invalid_deadline"
    ELSE IF ~TaskCommitOk(NewTaskRow(form, u, now, now)) THEN "error_500"
    ELSE "created"

new_task(u, form) ==
    LET result == NewTaskResult(u, form)
        id == NextId(DOMAIN tasks)
    IN  IF result # "created" THEN Rejected("new_task", u, 0, result)
        ELSE /\ Cardinality(DOMAIN tasks) < MaxTasks
             /\ Len(notifications) < MaxThread
             \* created_at and updated_at are two calls of datetime.utcnow
             /\ \E updated \in {t \in {now, now + 1} : t <= MaxClock} :
                  /\ tasks' = [i \in DOMAIN tasks \cup {id} |->
                                 IF i = id THEN NewTaskRow(form, u, now, updated)
                                 ELSE tasks[i]]
                  /\ now' = updated
             /\ notifications' = Append(notifications,
                    Notification("New Task Assigned", NewTaskMessage(form.title),
                                 NewTaskRecipient(form, u), id))
             /\ \E log \in MailLogs(NewTaskRecipient(form, u), "New Task Assigned",
                                    NewTaskMessage(form.title)) :
                  /\ mail_log' = log
                  /\ response' = Answer("new_task", u, id, "created", log)
             /\ UNCHANGED <<fk_enforced, comments, attachments>>

----------------------------------------------------------------------------
(* update_task_status *)

FormStatuses == Statuses \cup {Null, "done"}

\* The membership test left out: every submitted value is a status
ValidStatusUnchecked(s) == TRUE

\* "if new_status in ['pending', 'in-progress', 'completed']"
ValidStatus(s) == s \in Statuses

\* The comparison left out: every valid status is written and notified.
StatusChangesAlways(task, s) == TRUE

\* "if task.status != new_status"
StatusChanges(task, s) == task.status # s

\* old_status read after task.status was assigned
StatusMessageStale(title, old, new) == <<"status updated", title, new, new>>

StatusMessage(title, old, new) == <<"status updated", title, old, new>>

UpdateStatusResult(u, t, s) ==
    IF ~ClientRequired(u) THEN "forbidden"
    ELSE IF ~TaskExists(t) THEN "not_found"
    ELSE IF ~IsAssignee(u, tasks[t]) THEN "unauthorized"
    ELSE IF ~ValidStatus(s) THEN "invalid_status"
    ELSE IF ~StatusChanges(tasks[t], s) THEN "unchanged"
    ELSE "updated"

update_task_status(u, t, s) ==
    LET result == UpdateStatusResult(u, t, s)
    IN  IF result # "updated" THEN Rejected("update_task_status", u, t, result)
        ELSE LET task == tasks[t]
                 message == StatusMessage(task.title, task.status, s)
             IN  /\ Len(notifications) < MaxThread
                 /\ tasks' = [tasks EXCEPT ![t].status = s, ![t].updated_at = now]
                 /\ notifications' = Append(notifications,
                        Notification("Task Status Updated", message,
                                     task.creator_id, t))
                 /\ \E log \in MailLogs(task.creator_id, "Task Status Updated",
                                        message) :
                      /\ mail_log' = log
                      /\ response' = Answer("update_task_status", u, t, "updated", log)
                 /\ UNCHANGED <<fk_enforced, comments, attachments, now>>

----------------------------------------------------------------------------
(* edit_task *)

\* The assignments of edit_task to the task of its session, before the
\* deadline is parsed.
EditedFields(task, form) ==
    [task EXCEPT !.title = form.title,
                 !.description = form.description,
                 !.client_id = form.client_id,
                 !.service_type = form.service_type,
                 !.priority = form.priority]

\* The task of the session when edit_task commits; the UPDATE sets
\* updated_at (onupdate=datetime.utcnow).
EditedRow(task, form) ==
    [EditedFields(task, form) EXCEPT
        !.deadline = IF DeadlineGiven(form.deadline) THEN Strptime(form.deadline)
                     ELSE @,
        !.updated_at = now]

\* The assignments made before strptime raised reach the store (a flush that
\* is committed).
RowAfterInvalidDeadlineKept(task, form) == EditedFields(task, form)

\* The row the store holds after strptime raised: edit_task returns the form
\* without a commit, and the request's end discards the session.
RowAfterInvalidDeadline(task, form) == task

\* The client read before the form was applied
EditRecipientBefore(task, row) == task.client_id

\* "user_id=task.client_id" after the commit: the client the edit assigned
EditRecipient(task, row) == row.client_id

EditMessage(title) == <<"A task assigned to you has been updated", title>>

EditTaskResult(u, t, form) ==
    IF ~AdminRequired(u) THEN "forbidden"
    ELSE IF ~TaskExists(t) THEN "not_found"
    ELSE IF ~IsCreator(u, tasks[t]) THEN "unauthorized"
    ELSE IF DeadlineGiven(form.deadline) /\ ~StrptimeOk(form.deadline)
        \* The query for the form's clients flushes the session: the store
        \* refuses the UPDATE of a row that breaks a constraint.
        THEN IF TaskCommitOk(EditedFields(tasks[t], form)) THEN "invalid_deadline"
             ELSE "error_500"
    ELSE IF ~TaskCommitOk(EditedRow(tasks[t], form)) THEN "error_500"
    ELSE "updated"

edit_task(u, t, form) ==
    LET result == EditTaskResult(u, t, form)
    IN  CASE result = "updated" ->
               LET row == EditedRow(tasks[t], form)
               IN  /\ Len(notifications) < MaxThread
                   /\ tasks' = [tasks EXCEPT ![t] = row]
                   /\ notifications' = Append(notifications,
                          Notification("Task Updated", EditMessage(row.title),
                                       EditRecipient(tasks[t], row), t))
                   /\ \E log \in MailLogs(EditRecipient(tasks[t], row), "Task Updated",
                                          EditMessage(row.title)) :
                        /\ mail_log' = log
                        /\ response' = Answer("edit_task", u, t, "updated", log)
                   /\ UNCHANGED <<fk_enforced, comments, attachments, now>>
          [] result = "invalid_deadline" ->
               /\ tasks' = [tasks EXCEPT ![t] = RowAfterInvalidDeadline(tasks[t], form)]
               /\ response' = Response("edit_task", u, t, result)
               /\ mail_log' = <<>>
               /\ UNCHANGED <<fk_enforced, comments, attachments, notifications, now>>
          [] OTHER -> Rejected("edit_task", u, t, result)

----------------------------------------------------------------------------
(* delete_task *)

\* Task.comments and Task.attachments are cascade="all, delete-orphan":
\* deleting the task deletes its rows of both tables.
CascadeDelete(rows, t) == { r \in rows : r.task_id # t }

DeleteTaskResult(u, t) ==
    IF ~AdminRequired(u) THEN "forbidden"
    ELSE IF ~TaskExists(t) THEN "not_found"
    ELSE IF ~IsCreator(u, tasks[t]) THEN "unauthorized"
    ELSE IF ~TaskDeleteOk(t) THEN "error_500"
    ELSE "deleted"

delete_task(u, t) ==
    LET result == DeleteTaskResult(u, t)
    IN  IF result # "deleted" THEN Rejected("delete_task", u, t, result)
        ELSE /\ tasks' = [i \in DOMAIN tasks \ {t} |-> tasks[i]]
             /\ comments' = CascadeDelete(comments, t)
             /\ attachments' = CascadeDelete(attachments, t)
             /\ response' = Response("delete_task", u, t, "deleted")
             /\ mail_log' = <<>>
             /\ UNCHANGED <<fk_enforced, notifications, now>>

----------------------------------------------------------------------------
(* add_comment and upload_attachment *)

RowIds(rows) == { r.id : r \in rows }

\* "recipient_id = task.client_id if current_user.id == task.creator_id
\*  else task.creator_id"
OtherParty(u, task) == IF u = task.creator_id THEN task.client_id ELSE task.creator_id

FormContents == {Null, "", "C1"}

\* "if not content"
ContentGiven(content) == content # Null /\ content # ""

CommentMessage(title) == <<"New comment on task", title>>

AddCommentResult(u, t, content) ==
    IF ~TaskExists(t) THEN "not_found"
    ELSE IF ~IsParty(u, tasks[t]) THEN "unauthorized"
    ELSE IF ~ContentGiven(content) THEN "empty"
    ELSE "added"

add_comment(u, t, content) ==
    LET result == AddCommentResult(u, t, content)
    IN  IF result # "added" THEN Rejected("add_comment", u, t, result)
        ELSE /\ Len(notifications) < MaxThread
             /\ comments' = comments \cup
                   { [id |-> NextId(RowIds(comments)), content |-> content,
                      task_id |-> t, user_id |-> u] }
             /\ notifications' = Append(notifications,
                    Notification("New Comment", CommentMessage(tasks[t].title),
                                 OtherParty(u, tasks[t]), t))
             /\ response' = Response("add_comment", u, t, "added")
             /\ mail_log' = <<>>
             /\ UNCHANGED <<fk_enforced, tasks, attachments, now>>

\* request.files of an upload: no 'file' part, a part with an empty
\* filename, a part with a filename.
Uploads == {"<no part>", "", "a.txt"}

AttachmentMessage(title) == <<"New file attached to task", title>>

UploadResult(u, t, file) ==
    IF ~TaskExists(t) THEN "not_found"
    ELSE IF ~IsParty(u, tasks[t]) THEN "unauthorized"
    ELSE IF file = "<no part>" THEN "no_file_part"
    ELSE IF file = "" THEN "no_selected_file"
    ELSE "uploaded"

upload_attachment(u, t, file) ==
    LET result == UploadResult(u, t, file)
    IN  IF result # "uploaded" THEN Rejected("upload_attachment", u, t, result)
        ELSE /\ Len(notifications) < MaxThread
             /\ attachments' = attachments \cup
                   { [id |-> NextId(RowIds(attachments)), original_filename |-> file,
                      task_id |-> t, user_id |-> u] }
             /\ notifications' = Append(notifications,
                    Notification("New Attachment", AttachmentMessage(tasks[t].title),
                                 OtherParty(u, tasks[t]), t))
             /\ response' = Response("upload_attachment", u, t, "uploaded")
             /\ mail_log' = <<>>
             /\ UNCHANGED <<fk_enforced, tasks, comments, now>>

----------------------------------------------------------------------------
(* mark_notification_read *)

\* Notification.query.get_or_404(notification_id) finds a row
NotificationExists(n) == n \in 1..Len(notifications)

\* The flag flipped instead of set
MarkedValueToggled(notification) == ~notification.is_read

\* "notification.is_read = True"
MarkedValue(notification) == TRUE

\* The ownership check of mark_notification_read left out
OwnsNotificationUnchecked(u, notification) == TRUE

\* "notification.user_id != current_user.id" aborts with 403
OwnsNotification(u, notification) == notification.user_id = u

MarkReadResult(u, n) ==
    IF ~NotificationExists(n) THEN "not_found"
    ELSE IF ~OwnsNotification(u, notifications[n]) THEN "forbidden"
    ELSE "marked"

mark_notification_read(u, n) ==
    LET result == MarkReadResult(u, n)
    IN  IF result # "marked" THEN Rejected("mark_notification_read", u, n, result)
        ELSE /\ notifications' = [notifications EXCEPT
                                    ![n].is_read = MarkedValue(notifications[n])]
             /\ response' = Response("mark_notification_read", u, n, "marked")
             /\ mail_log' = <<>>
             /\ UNCHANGED <<fk_enforced, tasks, comments, attachments, now>>

----------------------------------------------------------------------------
(* The clock of datetime.utcnow. *)

Tick ==
    /\ now < MaxClock
    /\ now' = now + 1
    /\ UNCHANGED <<fk_enforced, tasks, comments, attachments,
                   notifications, response, mail_log, was_read, ai, sessions>>

----------------------------------------------------------------------------

\* A request is handled from its start to its answer before the next one
\* starts; Idle is the state between two requests.
NoResponse == Response("none", 0, 0, "none")

\* No request to an AI endpoint, and no concurrent session.
NoCall == [call |-> "none"]
NoSessions == << >>

Idle == response = NoResponse

\* The client has the answer of its request.
Deliver ==
    /\ ~Idle
    /\ response' = NoResponse
    /\ mail_log' = << >>
    /\ was_read' = FALSE
    /\ UNCHANGED <<fk_enforced, tasks, comments, attachments, notifications, now,
                   ai, sessions>>

Init ==
    /\ fk_enforced \in BOOLEAN
    /\ tasks = << >>
    /\ comments = {}
    /\ attachments = {}
    /\ notifications = << >>
    /\ now = 0
    /\ response = NoResponse
    /\ mail_log = << >>
    /\ was_read = FALSE
    /\ ai = NoCall
    /\ sessions = NoSessions

Request ==
    \/ \E u \in Users, form \in TaskForms : new_task(u, form)
    \/ \E u \in Users, t \in TaskIds, form \in TaskForms : edit_task(u, t, form)
    \/ \E u \in Users, t \in TaskIds : delete_task(u, t)
    \/ \E u \in Users, t \in TaskIds, s \in FormStatuses : update_task_status(u, t, s)
    \/ \E u \in Users, t \in TaskIds, content \in FormContents : add_comment(u, t, content)
    \/ \E u \in Users, t \in TaskIds, file \in Uploads : upload_attachment(u, t, file)
    \/ \E u \in Users, n \in NotificationIds : mark_notification_read(u, n)

\* History of the request just answered, for the properties that compare a
\* row with what it was before the request.
Observe ==
    was_read' = /\ response'.op = "mark_notification_read"
                /\ NotificationExists(response'.target)
                /\ notifications[response'.target].is_read

Next ==
    \/ /\ Idle /\ Request /\ Observe
       /\ Len(notifications') <= MaxNotifications
       /\ UNCHANGED <<ai, sessions>>
    \/ Idle /\ Tick
    \/ Deliver

Spec == Init /\ [][Next]_vars

----------------------------------------------------------------------------
(* The history of one task between its creator and the two clients: it is  *)
(* created, commented on, reassigned and moved through its statuses, with  *)
(* complete forms that differ in the client only.                          *)

ThreadAdmin == 3

ThreadForms ==
    { TaskForm("T1", "D1", "S1", "high", NoDeadlineText, c) : c \in Clients }

ThreadRequest ==
    \/ \E form \in ThreadForms : new_task(ThreadAdmin, form)
    \/ \E t \in DOMAIN tasks, form \in ThreadForms : edit_task(ThreadAdmin, t, form)
    \/ \E u \in Clients \cup {ThreadAdmin}, t \in DOMAIN tasks, content \in FormContents :
          add_comment(u, t, content)
    \/ \E u \in Clients, t \in DOMAIN tasks, s \in Statuses :
          update_task_status(u, t, s)

NextThread ==
    \/ Idle /\ ThreadRequest /\ Observe /\ UNCHANGED <<ai, sessions>>
    \/ Deliver

SpecThread == Init /\ [][NextThread]_vars

----------------------------------------------------------------------------
(* The AI helpers of utils.py and their endpoints.  A text is the sequence *)
(* of its characters; what the backend does with a request is an input.    *)

Whitespace == {" ", "\t", "\n"}

RECURSIVE LStrip(_)
LStrip(text) ==
    IF text # << >> /\ Head(text) \in Whitespace THEN LStrip(Tail(text)) ELSE text

RECURSIVE RStrip(_)
RStrip(text) ==
    IF text # << >> /\ text[Len(text)] \in Whitespace
    THEN RStrip(SubSeq(text, 1, Len(text) - 1))
    ELSE text

\* The text as it is: surrounding whitespace kept
StripNothing(text) == text

\* str.strip()
Strip(text) == RStrip(LStrip(text))

UpperToLower ==
    ("L" :> "l") @@ ("O" :> "o") @@ ("W" :> "w") @@ ("M" :> "m") @@ ("E" :> "e")
    @@ ("D" :> "d") @@ ("I" :> "i") @@ ("U" :> "u") @@ ("H" :> "h") @@ ("G" :> "g")
    @@ ("P" :> "p")

\* str.lower()
Lower(text) ==
    [i \in 1..Len(text) |->
        IF text[i] \in DOMAIN UpperToLower THEN UpperToLower[text[i]] ELSE text[i]]

LowText == <<"l", "o", "w">>
MediumText == <<"m", "e", "d", "i", "u", "m">>
HighText == <<"h", "i", "g", "h">>

\* ['low', 'medium', 'high']
PriorityTokens == {LowText, MediumText, HighText}

\* What openai_client.chat.completions.create and the read of
\* response.choices[0].message.content give: an exception, None, a text.
\* text stands for the content of a text answer and is blank otherwise.
Backend(kind, error, text) == [kind |-> kind, error |-> error, text |-> text]
BackendRaises(blank) == Backend("raises", "Connection error.", blank)
BackendNoContent(blank) == Backend("none", "", blank)

\* The answers to the priority prompt: a core between two runs of whitespace.
AnswerCores ==
    { LowText, <<"L", "o", "w">>, <<"L", "O", "W">>,
      MediumText, <<"M", "e", "d", "i", "u", "m">>,
      HighText, <<"H", "I", "G", "H">>,
      << >>, <<"l", "o", "w", ".">>, <<"l", "o", " ", "w">>,
      <<"u", "r", "g", "e", "n", "t">>,
      <<"H", "i", "g", "h", " ", "p", "r", "i", "o", "r", "i", "t", "y">> }

AnswerPads == { << >>, <<" ">>, <<"\n", " ">>, <<"\t">> }

AnswerText(left, core, right) == [left |-> left, core |-> core, right |-> right]

PriorityBackends ==
    { BackendRaises(AnswerText(<< >>, << >>, << >>)),
      BackendNoContent(AnswerText(<< >>, << >>, << >>)) }
    \cup { Backend("text", "", AnswerText(l, c, r)) :
             l \in AnswerPads, c \in AnswerCores, r \in AnswerPads }

\* message.content of a text answer
AnswerContent(text) == text.left \o text.core \o text.right

\* analyze_task_priority: the token the answer spells, 'medium' for every
\* other answer, for no content and for an exception.
AnalyzeTaskPriority(task_description, deadline_days, backend) ==
    IF backend.kind = "raises" THEN MediumText
    ELSE IF backend.kind = "none" THEN MediumText
    ELSE LET suggested_priority == Lower(Strip(AnswerContent(backend.text)))
         IN  IF suggested_priority \in PriorityTokens THEN suggested_priority
             ELSE MediumText

Digits == {"0", "1", "2", "3", "4", "5", "6", "7", "8", "9"}

\* str.isdigit()
IsDigit(text) == text # << >> /\ \A i \in 1..Len(text) : text[i] \in Digits

DigitValue ==
    ("0" :> 0) @@ ("1" :> 1) @@ ("2" :> 2) @@ ("3" :> 3) @@ ("4" :> 4)
    @@ ("5" :> 5) @@ ("6" :> 6) @@ ("7" :> 7) @@ ("8" :> 8) @@ ("9" :> 9)

\* int(text) of a text of digits
RECURSIVE IntOf(_)
IntOf(text) ==
    IF text = << >> THEN 0
    ELSE 10 * IntOf(SubSeq(text, 1, Len(text) - 1)) + DigitValue[text[Len(text)]]

\* request.form.get('deadline_days', None): whether the form has the field,
\* and its text.
DaysField(given, text) == [given |-> given, text |-> text]

\* "if deadline_days and deadline_days.isdigit(): int(...) else None"
DeadlineDays(field) ==
    IF field.given /\ IsDigit(field.text) THEN IntOf(field.text) ELSE Null

DeadlineDaysFields ==
    { DaysField(FALSE, << >>) }
    \cup { DaysField(TRUE, text) :
             text \in { << >>, <<"3">>, <<"1", "0">>, <<"-", "1">>,
                        <<"s", "o", "o", "n">> } }

ApiAnswer(status, body) == [status |-> status, body |-> body]

NotCalled == "<not called>"

\* A request to an AI endpoint before it is handled.
AiCall(call, u, form, backend) ==
    [call |-> call, user |-> u, form |-> form, backend |-> backend,
     done |-> FALSE, called |-> FALSE, returned |-> NotCalled,
     answer |-> ApiAnswer(0, Null)]

AnalyzeCalls ==
    { AiCall("analyze_task_priority_api", u,
             [description |-> d, deadline_days |-> days], b) :
        u \in {1, 3}, d \in {"", "D1"}, days \in DeadlineDaysFields,
        b \in PriorityBackends }

\* The stores of the other endpoints, untouched by the AI endpoints.
NoStoreAccess ==
    UNCHANGED <<fk_enforced, tasks, comments, attachments, notifications, now,
                response, mail_log, was_read, sessions>>

analyze_task_priority_api ==
    /\ ai.call = "analyze_task_priority_api"
    /\ ~ai.done
    /\ ai' =
         IF ~AdminRequired(ai.user)
         THEN [ai EXCEPT !.done = TRUE, !.answer = ApiAnswer(403, Null)]
         ELSE IF ai.form.description = ""
         THEN [ai EXCEPT !.done = TRUE,
                         !.answer = ApiAnswer(400, [success |-> FALSE])]
         ELSE LET priority ==
                      AnalyzeTaskPriority(ai.form.description,
                                          DeadlineDays(ai.form.deadline_days),
                                          ai.backend)
              IN  [ai EXCEPT !.done = TRUE, !.called = TRUE,
                             !.returned = priority,
                             !.answer = ApiAnswer(200, [success |-> TRUE,
                                                        priority |-> priority])]
    /\ NoStoreAccess

\* A JSON text: what it is a text of, and its members in the order of the
\* text. The members of an object are <<key, value>> pairs, those of an array
\* are values, those of a string are its words.
JsonDoc(form, members) == [form |-> form, members |-> members]

JsonKeys == {"title", "description", "note"}
JsonValues == {"", "Draft", Null}
JsonPairs == JsonKeys \X JsonValues

JsonDocs ==
    { JsonDoc("object", ms) : ms \in {<< >>} \cup { <<a>> : a \in JsonPairs }
                                     \cup { <<a, b>> : a \in JsonPairs, b \in JsonPairs } }
    \cup { JsonDoc("array", << >>), JsonDoc("array", <<"title", "description">>),
           JsonDoc("string", <<"hello">>), JsonDoc("string", <<"title", "description">>),
           JsonDoc("number", <<5>>), JsonDoc("malformed", << >>) }

DraftBackends ==
    { BackendRaises(JsonDoc("none", << >>)), BackendNoContent(JsonDoc("none", << >>)) }
    \cup { Backend("text", "", doc) : doc \in JsonDocs }

\* The dict json.loads builds of an object: a repeated key keeps its last value.
RECURSIVE DictOf(_)
DictOf(members) ==
    IF members = << >> THEN [k \in {} |-> Null]
    ELSE LET rest == DictOf(SubSeq(members, 1, Len(members) - 1))
             last == members[Len(members)]
         IN  [k \in DOMAIN rest \cup {last[1]} |->
                IF k = last[1] THEN last[2] ELSE rest[k]]

\* "key in result" for the value json.loads returned: a key of a dict, an
\* element of a list, a part of a str.
HasKey(doc, key) ==
    IF doc.form = "object" THEN key \in DOMAIN DictOf(doc.members)
    ELSE \E i \in 1..Len(doc.members) : doc.members[i] = key

DraftResult(title, description, success, error) ==
    [title |-> title, description |-> description, success |-> success,
     error |-> error]

\* The except branch of generate_ai_task_description
DraftFailure(error) == DraftResult("", "", FALSE, error)

\* result['title'] and result['description'] are read of a dict; of a list
\* and of a str they raise TypeError.
FieldsUsable(doc) == doc.form = "object"

\* generate_ai_task_description
GenerateAiTaskDescription(service_type, keywords, client_name, priority, backend) ==
    IF backend.kind = "raises" THEN DraftFailure(backend.error)
    ELSE IF backend.kind = "none" THEN DraftFailure("No content received from AI")
    ELSE LET doc == backend.text
         IN  IF doc.form = "malformed" THEN DraftFailure("JSONDecodeError")
             ELSE IF doc.form = "number" THEN DraftFailure("TypeError")
             ELSE IF ~HasKey(doc, "title") \/ ~HasKey(doc, "description")
                 THEN DraftFailure("AI response missing required fields")
             ELSE IF ~FieldsUsable(doc) THEN DraftFailure("TypeError")
             ELSE DraftResult(DictOf(doc.members)["title"],
                              DictOf(doc.members)["description"], TRUE, Null)

GenerateCalls ==
    { AiCall("generate_task_description_api", u,
             [service_type |-> st, keywords |-> k, client_name |-> c,
              priority |-> p], b) :
        u \in {1, 3}, st \in {"", "Legal"}, k \in {"", "contract review"},
        c \in {Null, "Acme"}, p \in {Null, "high"}, b \in DraftBackends }

generate_task_description_api ==
    /\ ai.call = "generate_task_description_api"
    /\ ~ai.done
    /\ ai' =
         IF ~AdminRequired(ai.user)
         THEN [ai EXCEPT !.done = TRUE, !.answer = ApiAnswer(403, Null)]
         ELSE IF ai.form.service_type = "" \/ ai.form.keywords = ""
         THEN [ai EXCEPT !.done = TRUE,
                         !.answer = ApiAnswer(400, [success |-> FALSE])]
         ELSE LET result ==
                      GenerateAiTaskDescription(ai.form.service_type,
                          ai.form.keywords, ai.form.client_name,
                          ai.form.priority, ai.backend)
              IN  [ai EXCEPT !.done = TRUE, !.called = TRUE,
                             !.returned = result,
                             !.answer =
                                 IF result.success
                                 THEN ApiAnswer(200, [success |-> TRUE,
                                          title |-> result.title,
                                          description |-> result.description])
                                 ELSE ApiAnswer(500, [success |-> FALSE,
                                          error |-> result.error])]
    /\ NoStoreAccess

InitAdvisor ==
    /\ fk_enforced \in BOOLEAN
    /\ tasks = << >>
    /\ comments = {}
    /\ attachments = {}
    /\ notifications = << >>
    /\ now = 0
    /\ response = NoResponse
    /\ mail_log = << >>
    /\ was_read = FALSE
    /\ sessions = NoSessions
    /\ ai \in AnalyzeCalls \/ ai \in GenerateCalls

NextAdvisor ==
    \/ analyze_task_priority_api
    \/ generate_task_description_api

SpecAdvisor == InitAdvisor /\ [][NextAdvisor]_vars

\* The token a core spells, whatever the case of its letters; 'medium' for a
\* core that spells none.
SpelledToken(core) ==
    CASE core \in {<<"l", "o", "w">>, <<"L", "o", "w">>, <<"L", "O", "W">>} -> LowText
      [] core \in {<<"h", "i", "g", "h">>, <<"H", "I", "G", "H">>} -> HighText
      [] OTHER -> MediumText

\* C18: analyze_task_priority returns low, medium or high for every input and
\* every outcome of the backend: the token the answer spells once trimmed and
\* lower-cased, and medium when the answer spells none, is empty, is missing,
\* or the backend raises; the caller always gets a priority, never an
\* exception.
C18_PriorityAlwaysToken ==
    (ai.call = "analyze_task_priority_api" /\ ai.done /\ ai.called) =>
        /\ ai.returned \in {<<"l", "o", "w">>, <<"m", "e", "d", "i", "u", "m">>,
                            <<"h", "i", "g", "h">>}
        /\ ai.backend.kind = "text" => ai.returned = SpelledToken(ai.backend.text.core)
        /\ ai.backend.kind # "text" => ai.returned = <<"m", "e", "d", "i", "u", "m">>
        /\ ai.answer.status = 200
        /\ ai.answer.body.priority = ai.returned

\* An answer in capitals between whitespace was returned as its token.
C18_Witness ==
    /\ ai.call = "analyze_task_priority_api"
    /\ ai.called
    /\ ai.backend.kind = "text"
    /\ ai.backend.text.core = <<"H", "I", "G", "H">>
    /\ ai.backend.text.left = <<"\n", " ">>
    /\ ai.backend.text.right = <<"\t">>
    /\ ai.returned = <<"h", "i", "g", "h">>

\* C19: generate_ai_task_description never returns success with an empty
\* title or an empty description, whatever the backend does (raises, gives no
\* content, a payload without one of the fields, a payload with both); when
\* it fails it returns success false and a message.
C19_NoEmptyDraft ==
    (ai.call = "generate_task_description_api" /\ ai.done /\ ai.called) =>
        /\ ai.returned.success =>
              /\ ai.returned.title # ""
              /\ ai.returned.description # ""
        /\ ~ai.returned.success => ai.returned.error \notin {"", Null}

----------------------------------------------------------------------------
(* Concurrent requests.  Each request runs in its own database session: it *)
(* reads the task (Task.query.get_or_404), decides on the row it read, and *)
(* its commit sends an UPDATE of the columns it assigned; after the commit *)
(* the session reads the row again for the notification.                   *)

SessionIds == {"A", "B"}

IdleSession ==
    [pc |-> "idle", op |-> "none", user |-> 0, target |-> 0, input |-> Null,
     snapshot |-> Null, result |-> "none", seen_commits |-> 0, commit_no |-> 0]

\* The commits of task rows made so far.
Commits == Cardinality({ s \in SessionIds : sessions[s].commit_no > 0 })

\* The store's UPDATE compares a version of the row with the one the session
\* read and refuses a stale one.
StaleRowRefusedByVersion(snapshot, stored) == snapshot # stored

\* Task declares no version column and the handlers take no lock: the UPDATE
\* is "WHERE task.id = ?" and applies to whatever the row holds by then.
StaleRowRefused(snapshot, stored) == FALSE

\* The row after the UPDATE of update_task_status: the two columns assigned.
StatusUpdateRow(stored, status) ==
    [stored EXCEPT !.status = status, !.updated_at = now]

\* The row after the UPDATE of edit_task. The UPDATE carries the columns
\* whose assigned value differs from the one the session read; client_id is
\* always among them (the form's text is compared with the integer read),
\* and with it updated_at (onupdate).
EditUpdateRow(stored, snapshot, form) ==
    LET assigned == EditedRow(snapshot, form)
        Written(column) == IF assigned[column] # snapshot[column]
                           THEN assigned[column] ELSE stored[column]
    IN  [stored EXCEPT !.title = Written("title"),
                       !.description = Written("description"),
                       !.service_type = Written("service_type"),
                       !.priority = Written("priority"),
                       !.deadline = Written("deadline"),
                       !.client_id = assigned.client_id,
                       !.updated_at = now]

\* What the request decides on the row it read.
SessionResult(session) ==
    IF session.op = "update_task_status"
    THEN IF ~IsAssignee(session.user, session.snapshot) THEN "unauthorized"
         ELSE IF ~ValidStatus(session.input) THEN "invalid_status"
         ELSE IF ~StatusChanges(session.snapshot, session.input) THEN "unchanged"
         ELSE "updated"
    ELSE IF ~IsCreator(session.user, session.snapshot) THEN "unauthorized"
         ELSE IF DeadlineGiven(session.input.deadline)
                 /\ ~StrptimeOk(session.input.deadline) THEN "invalid_deadline"
         ELSE "updated"

SessionRequests ==
    { [op |-> "update_task_status", user |-> u, input |-> status] :
        u \in Clients, status \in Statuses }
    \cup { [op |-> "edit_task", user |-> ThreadAdmin, input |-> form] :
             form \in ThreadForms }

\* The request reaches its handler, which reads the task.
Begin(s) ==
    /\ sessions[s].pc = "idle"
    /\ \E request \in SessionRequests, t \in TaskIds :
         sessions' = [sessions EXCEPT ![s] =
            IF ~TaskExists(t)
            THEN [@ EXCEPT !.pc = "done", !.op = request.op, !.user = request.user,
                           !.target = t, !.input = request.input,
                           !.result = "not_found"]
            ELSE [@ EXCEPT !.pc = "read", !.op = request.op, !.user = request.user,
                           !.target = t, !.input = request.input,
                           !.snapshot = tasks[t], !.seen_commits = Commits]]
    /\ UNCHANGED <<fk_enforced, tasks, comments, attachments, notifications, now,
                   response, mail_log, was_read, ai>>

\* The handler runs its checks on the row it read and commits its UPDATE.
Commit(s) ==
    LET session == sessions[s]
        t == session.target
        result == SessionResult(session)
        row == IF session.op = "update_task_status"
               THEN StatusUpdateRow(tasks[t], session.input)
               ELSE EditUpdateRow(tasks[t], session.snapshot, session.input)
    IN  /\ session.pc = "read"
        /\ IF result # "updated"
           THEN /\ sessions' = [sessions EXCEPT ![s].pc = "done", ![s].result = result]
                /\ UNCHANGED tasks
           ELSE IF StaleRowRefused(session.snapshot, tasks[t]) \/ ~TaskCommitOk(row)
           THEN /\ sessions' = [sessions EXCEPT ![s].pc = "done",
                                                ![s].result = "error_500"]
                /\ UNCHANGED tasks
           ELSE /\ sessions' = [sessions EXCEPT ![s].pc = "written",
                                                ![s].commit_no = Commits + 1]
                /\ tasks' = [tasks EXCEPT ![t] = row]
        /\ UNCHANGED <<fk_enforced, comments, attachments, notifications, now,
                       response, mail_log, was_read, ai>>

\* After its commit the handler adds the notification and sends the email;
\* the title and the users are read of the row as it is by then, the old
\* status is the one the request read.
Notify(s) ==
    LET session == sessions[s]
        t == session.target
        task == tasks[t]
        title == IF session.op = "update_task_status"
                 THEN "Task Status Updated" ELSE "Task Updated"
        message == IF session.op = "update_task_status"
                   THEN StatusMessage(task.title, session.snapshot.status,
                                      session.input)
                   ELSE EditMessage(task.title)
        recipient == IF session.op = "update_task_status"
                     THEN task.creator_id ELSE task.client_id
    IN  /\ session.pc = "written"
        /\ Len(notifications) < MaxThread
        /\ notifications' = Append(notifications,
                                   Notification(title, message, recipient, t))
        /\ \E log \in MailLogs(recipient, title, message) :
             mail_log' = mail_log \o log
        /\ sessions' = [sessions EXCEPT ![s].pc = "done", ![s].result = "updated"]
        /\ UNCHANGED <<fk_enforced, tasks, comments, attachments, now,
                       response, was_read, ai>>

\* One task, created by the admin for one of the clients.
InitSessions ==
    /\ fk_enforced \in BOOLEAN
    /\ \E form \in ThreadForms :
         /\ tasks = <<NewTaskRow(form, ThreadAdmin, 0, 0)>>
         /\ notifications = <<Notification("New Task Assigned",
                                            NewTaskMessage(form.title),
                                            NewTaskRecipient(form, ThreadAdmin), 1)>>
    /\ comments = {}
    /\ attachments = {}
    /\ now = 0
    /\ response = NoResponse
    /\ mail_log = << >>
    /\ was_read = FALSE
    /\ ai = NoCall
    /\ sessions = [s \in SessionIds |-> IdleSession]

NextSessions ==
    \/ \E s \in SessionIds : Begin(s)
    \/ \E s \in SessionIds : Commit(s)
    \/ \E s \in SessionIds : Notify(s)
    \/ Tick

SpecSessions == InitSessions /\ [][NextSessions]_vars

\* The sessions whose update_task_status wrote a status.
StatusWriters ==
    { s \in SessionIds : sessions[s].op = "update_task_status"
                         /\ sessions[s].commit_no > 0 }

\* The step is the commit of session s, of a request that passes its checks
\* on the row it read.
CommitsAccepted(s) ==
    /\ sessions[s].pc = "read"
    /\ sessions'[s].pc # "read"
    /\ \/ /\ sessions[s].op = "update_task_status"
          /\ sessions[s].snapshot.client_id = sessions[s].user
          /\ sessions[s].input # sessions[s].snapshot.status
       \/ /\ sessions[s].op = "edit_task"
          /\ sessions[s].snapshot.creator_id = sessions[s].user

\* C20: two requests that update the same task from two sessions are not
\* reconciled. A request that has read the task can always commit, whatever
\* the other session committed since; it is not refused for that: its UPDATE
\* is applied to the row as it is, an update_task_status writes its status
\* and an edit_task leaves the status alone. So the stored status is at any
\* time the one of the update_task_status that committed last.
C20_LastCommitWins ==
    /\ [](\A s \in SessionIds : sessions[s].pc = "read" => ENABLED Commit(s))
    /\ [][\A s \in SessionIds : CommitsAccepted(s) =>
            /\ sessions'[s].pc = "written"
            /\ sessions'[s].commit_no = Commits + 1
            /\ tasks'[sessions[s].target].status =
                  IF sessions[s].op = "update_task_status" THEN sessions[s].input
                  ELSE tasks[sessions[s].target].status]_vars
    /\ [](\A s \in StatusWriters :
            (\A o \in StatusWriters : sessions[o].commit_no <= sessions[s].commit_no)
            => tasks[sessions[s].target].status = sessions[s].input)

\* Both sessions read the task before either committed, both changed the
\* status and were answered with success; the status is the one of the
\* second commit.
C20_Witness ==
    /\ \A s \in SessionIds :
         /\ sessions[s].op = "update_task_status"
         /\ sessions[s].pc = "done"
         /\ sessions[s].result = "updated"
         /\ sessions[s].seen_commits = 0
    /\ sessions["A"].commit_no = 2
    /\ sessions["B"].commit_no = 1
    /\ sessions["A"].input # sessions["B"].input
    /\ tasks[1].status = sessions["A"].input

----------------------------------------------------------------------------
(* The properties of update_task_status. *)

LastNotification == notifications[Len(notifications)]

\* A client calls update_task_status on a task assigned to them.
ByAssignee(u, t) == ClientRequired(u) /\ TaskExists(t) /\ IsAssignee(u, tasks[t])

\* The step answers a request of handler op; Caller and Target are the user
\* and the row the request named.
Answers(op) == response'.op = op
Caller == response'.user
Target == response'.target

\* C1: when the assigned client submits a valid status that differs from the
\* stored one, the step adds exactly one notification, addressed to the
\* task's creator with a message that carries the old and the new status,
\* and makes exactly one call of the email sender, whatever its outcome.
C1_StatusChangeNotifiesCreator ==
    [][(Answers("update_task_status") /\ ByAssignee(Caller, Target)) =>
         \A s \in Statuses \ {tasks[Target].status} :
            update_task_status(Caller, Target, s)
            => /\ tasks'[Target].status = s
               /\ Len(notifications') = Len(notifications) + 1
               /\ SubSeq(notifications', 1, Len(notifications)) = notifications
               /\ LastNotification'.user_id = tasks[Target].creator_id
               /\ LastNotification'.task_id = Target
               /\ LastNotification'.message =
                     <<"status updated", tasks[Target].title,
                       tasks[Target].status, s>>
               /\ Len(mail_log') = 1
               /\ mail_log'[1].to = tasks[Target].creator_id]_vars

\* A status change was answered although the email failed.
C1_Witness ==
    /\ response.op = "update_task_status"
    /\ response.result = "updated"
    /\ Len(mail_log) = 1
    /\ mail_log[1].outcome = "failed"
    /\ LastNotification.title = "Task Status Updated"

\* C2: when the assigned client submits the status the task already has, the
\* step changes no row of the store (status and updated_at included), adds
\* no notification and does not call the email sender.
C2_SameStatusIsNoOp ==
    [][(/\ Answers("update_task_status")
        /\ ByAssignee(Caller, Target)
        /\ update_task_status(Caller, Target, tasks[Target].status))
       => /\ UNCHANGED store
          /\ mail_log' = << >>
          /\ response'.result = "unchanged"]_vars

\* The same status was submitted after the clock had passed updated_at.
C2_Witness ==
    /\ response.op = "update_task_status"
    /\ response.result = "unchanged"
    /\ TaskExists(response.target)
    /\ tasks[response.target].updated_at < now
    /\ tasks[response.target].status # "pending"

\* C3: a client who calls update_task_status on a task that is not assigned
\* to them is answered with the authorization failure, for every submitted
\* status; the step changes no row of the store and does not call the email
\* sender.
C3_OtherClientRejected ==
    [][(/\ Answers("update_task_status")
        /\ ClientRequired(Caller)
        /\ TaskExists(Target)
        /\ tasks[Target].client_id # Caller) =>
         \A s \in FormStatuses :
            update_task_status(Caller, Target, s)
            => /\ response'.result = "unauthorized"
               /\ UNCHANGED store
               /\ mail_log' = << >>]_vars

\* A client was refused on a task assigned to the other client.
C3_Witness ==
    /\ response.op = "update_task_status"
    /\ response.result = "unauthorized"
    /\ TaskExists(response.target)
    /\ tasks[response.target].client_id \in Clients \ {response.user}

----------------------------------------------------------------------------
(* The properties of new_task and edit_task. *)

\* The deadline of the form is absent or strptime parses it.
DeadlinePasses(form) == ~DeadlineGiven(form.deadline) \/ StrptimeOk(form.deadline)

\* The step appends one notification, for user r about task t, and calls
\* the email sender once, for r.
NotifiesOnce(r, t) ==
    /\ Len(notifications') = Len(notifications) + 1
    /\ SubSeq(notifications', 1, Len(notifications)) = notifications
    /\ LastNotification'.user_id = r
    /\ LastNotification'.task_id = t
    /\ ~LastNotification'.is_read
    /\ Len(mail_log') = 1
    /\ mail_log'[1].to = r

\* C4: a new_task of an admin with a title, the id of an existing user as
\* assignee and a deadline that is absent or parses succeeds: it stores
\* exactly one new task, whose status is "pending", adds exactly one
\* notification addressed to the assignee and calls the email sender exactly
\* once, for the assignee.
C4_NewTaskPendingAndNotified ==
    [][(Answers("new_task") /\ AdminRequired(Caller)) =>
         \A form \in TaskForms :
            (/\ form.title # Null
             /\ UserExists(form.client_id)
             /\ DeadlinePasses(form)
             /\ new_task(Caller, form))
            => /\ response'.result = "created"
               /\ Target \notin DOMAIN tasks
               /\ DOMAIN tasks' = DOMAIN tasks \cup {Target}
               /\ \A i \in DOMAIN tasks : tasks'[i] = tasks[i]
               /\ tasks'[Target].status = "pending"
               /\ tasks'[Target].client_id = form.client_id
               /\ tasks'[Target].creator_id = Caller
               /\ NotifiesOnce(form.client_id, Target)]_vars

\* A task without a deadline was created and its one email was attempted.
C4_Witness ==
    /\ response.op = "new_task"
    /\ response.result = "created"
    /\ tasks[response.target].status = "pending"
    /\ tasks[response.target].deadline = NoDeadline
    /\ LastNotification.user_id = tasks[response.target].client_id
    /\ Len(mail_log) = 1

\* The creator calls edit_task on their task.
ByCreator(u, t) == AdminRequired(u) /\ TaskExists(t) /\ IsCreator(u, tasks[t])

\* C5: when the creator submits an edit whose deadline text does not parse,
\* the edit is refused (with the format error, or with the store's error
\* when the form also lacks a required field): the stored task (title,
\* description, client, service type, priority, deadline and the rest) is as
\* before, no notification is added and the email sender is not called.
C5_InvalidDeadlineKeepsTask ==
    [][(Answers("edit_task") /\ ByCreator(Caller, Target)) =>
         \A form \in TaskForms :
            (/\ ~DeadlinePasses(form)
             /\ edit_task(Caller, Target, form))
            => /\ response'.result \in {"invalid_deadline", "error_500"}
               /\ tasks' = tasks
               /\ notifications' = notifications
               /\ mail_log' = << >>]_vars

\* An edit was refused for its deadline; the only forms with a deadline that
\* does not parse and a priority carry title "T2" and priority "high", not
\* the stored ones.
C5_Witness ==
    /\ response.op = "edit_task"
    /\ response.result = "invalid_deadline"
    /\ tasks[response.target].title = "T1"
    /\ tasks[response.target].priority = "medium"

\* The stored task carries the fields of the form; a form without a deadline
\* leaves the stored deadline.
Applied(t, form) ==
    /\ tasks'[t].title = form.title
    /\ tasks'[t].description = form.description
    /\ tasks'[t].service_type = form.service_type
    /\ tasks'[t].priority = form.priority
    /\ tasks'[t].client_id = form.client_id
    /\ tasks'[t].deadline = IF DeadlineGiven(form.deadline)
                            THEN Strptime(form.deadline) ELSE tasks[t].deadline

\* C6 as stated: every edit of the creator that passes deadline parsing is
\* applied and followed by exactly one notification and one email attempt
\* addressed to the client assigned after the edit.
C6_EveryEditApplied ==
    [][(Answers("edit_task") /\ ByCreator(Caller, Target)) =>
         \A form \in TaskForms :
            (/\ DeadlinePasses(form)
             /\ edit_task(Caller, Target, form))
            => /\ Applied(Target, form)
               /\ NotifiesOnce(form.client_id, Target)]_vars

\* C6, amended: every edit of the creator that passes deadline parsing and
\* carries a title, a priority and the id of an existing user as client is
\* applied and followed by exactly one notification and one email attempt
\* addressed to the client assigned after the edit, also when no field
\* differs from the stored task.
C6_CompleteEditApplied ==
    [][(Answers("edit_task") /\ ByCreator(Caller, Target)) =>
         \A form \in TaskForms :
            (/\ DeadlinePasses(form)
             /\ form.title # Null
             /\ form.priority # Null
             /\ UserExists(form.client_id)
             /\ edit_task(Caller, Target, form))
            => /\ response'.result = "updated"
               /\ Applied(Target, form)
               /\ NotifiesOnce(form.client_id, Target)]_vars

\* An edit assigned the task to another client, who was notified.
C6_Witness ==
    /\ response.op = "edit_task"
    /\ response.result = "updated"
    /\ Len(notifications) = 2
    /\ notifications[1].title = "New Task Assigned"
    /\ notifications[1].user_id \in Clients
    /\ notifications[2].user_id \in Clients \ {notifications[1].user_id}
    /\ tasks[response.target].client_id = notifications[2].user_id
    /\ Len(mail_log) = 1

----------------------------------------------------------------------------
(* The properties of delete_task and of the notifications. *)

\* No comment and no attachment refers to a task that is not stored.
NoDanglingRows == \A r \in comments \cup attachments : TaskExists(r.task_id)

\* C7: after delete_task by the task's creator the task, its comments and
\* its attachments are gone, and in every state no comment and no attachment
\* refers to a task that does not exist.
C7_DeleteRemovesTask ==
    /\ []NoDanglingRows
    /\ [][(Answers("delete_task") /\ ByCreator(Caller, Target)) =>
            (delete_task(Caller, Target)
             => /\ Target \notin DOMAIN tasks'
                /\ \A r \in comments' \cup attachments' : r.task_id # Target)]_vars

\* The step made an email attempt that did not send.
MailFailed == Len(mail_log') = 1 /\ mail_log'[1].outcome # "sent"

\* C8: a failed email never fails or undoes its operation. A new_task, an
\* edit_task or a status-changing update_task_status whose email attempt
\* fails (mail.send raises, or there is no address) answers success, and the
\* task it wrote and the notification it added are in the store.
C8_MailFailureKeepsWrites ==
    [][MailFailed =>
         /\ response'.op \in {"new_task", "edit_task", "update_task_status"}
         /\ response'.result \in {"created", "updated"}
         /\ Target \in DOMAIN tasks'
         /\ Len(notifications') = Len(notifications) + 1
         /\ LastNotification'.user_id = mail_log'[1].to
         /\ LastNotification'.task_id = Target
         /\ Answers("new_task") =>
                /\ ~TaskExists(Target)
                /\ \E form \in TaskForms :
                       tasks'[Target] \in { NewTaskRow(form, Caller, now, upd) :
                                            upd \in {now, now + 1} }
         /\ Answers("update_task_status") =>
                /\ tasks'[Target].status # tasks[Target].status
                /\ LastNotification'.message[4] = tasks'[Target].status
         /\ Answers("edit_task") =>
                \E form \in TaskForms : tasks'[Target] = EditedRow(tasks[Target], form)]_vars

\* A status change was stored and notified although mail.send raised.
C8_Witness ==
    /\ response.op = "update_task_status"
    /\ response.result = "updated"
    /\ Len(mail_log) = 1
    /\ mail_log[1].outcome = "failed"
    /\ tasks[response.target].status = "completed"
    /\ LastNotification.message[4] = "completed"

\* C9: every tracked event (task created, task updated, status changed,
\* comment added, attachment added) produces a notification and an email
\* attempt to the notified user.
C9_EveryEventEmails ==
    [][(/\ Len(notifications') = Len(notifications) + 1
        /\ UserExists(LastNotification'.user_id))
       => /\ Len(mail_log') = 1
          /\ mail_log'[1].to = LastNotification'.user_id]_vars

\* C10: a notification, once created, is changed only by mark_notification_read
\* of its owner: a mark-read of another user is answered 403 and changes
\* nothing, is_read never returns to false, recipient, title, message and
\* task link never change, and no step deletes a notification.
C10_NotificationLifecycle ==
    [][/\ Len(notifications') >= Len(notifications)
       /\ \A i \in 1..Len(notifications) :
            /\ notifications'[i].user_id = notifications[i].user_id
            /\ notifications'[i].title = notifications[i].title
            /\ notifications'[i].message = notifications[i].message
            /\ notifications'[i].task_id = notifications[i].task_id
            /\ notifications[i].is_read => notifications'[i].is_read
            /\ notifications'[i] # notifications[i]
               => /\ Answers("mark_notification_read")
                  /\ Target = i
                  /\ Caller = notifications[i].user_id
       /\ (/\ Answers("mark_notification_read")
           /\ NotificationExists(Target)
           /\ Caller # notifications[Target].user_id)
          => /\ response'.result = "forbidden"
             /\ UNCHANGED store]_vars

\* Another user's mark-read was refused on a notification its owner had
\* read, after the task it links to was deleted.
C10_Witness ==
    /\ response.op = "mark_notification_read"
    /\ response.result = "forbidden"
    /\ notifications[response.target].is_read
    /\ ~TaskExists(notifications[response.target].task_id)

\* C11: mark_notification_read is idempotent. The owner's request on a
\* notification that is already read is answered with success, and every
\* table of the store is after it what it was before.
C11_MarkReadIdempotent ==
    [][(/\ Answers("mark_notification_read")
        /\ NotificationExists(Target)
        /\ notifications[Target].is_read
        /\ notifications[Target].user_id = Caller
        /\ mark_notification_read(Caller, Target))
       => /\ response'.result = "marked"
          /\ UNCHANGED store]_vars

\* The owner marked a notification that was read already.
C11_Witness ==
    /\ response.op = "mark_notification_read"
    /\ response.result = "marked"
    /\ was_read
    /\ notifications[response.target].user_id = response.user
    /\ notifications[response.target].is_read

----------------------------------------------------------------------------
(* The ownership checks. *)

\* The step answers an edit_task or a delete_task of an admin on a stored
\* task that another user created.
ByOtherAdmin ==
    /\ Answers("edit_task") \/ Answers("delete_task")
    /\ Caller \in Admins
    /\ TaskExists(Target)
    /\ tasks[Target].creator_id # Caller

\* The step answers an add_comment or an upload_attachment of a user who is
\* neither the creator nor the assigned client of the stored task.
ByOutsider ==
    /\ Answers("add_comment") \/ Answers("upload_attachment")
    /\ TaskExists(Target)
    /\ Caller \notin {tasks[Target].creator_id, tasks[Target].client_id}

\* C12: a request that fails the ownership check is refused before it
\* changes anything. An edit_task or a delete_task of an admin who did not
\* create the task, and an add_comment or an upload_attachment of a user who
\* is neither the task's creator nor its assignee, whatever the form
\* carries, is answered with the authorization failure and leaves tasks,
\* comments, attachments and notifications as they were, without an email.
C12_OwnershipRejectsBeforeWrite ==
    [][(ByOtherAdmin \/ ByOutsider)
       => /\ response'.result = "unauthorized"
          /\ UNCHANGED store
          /\ mail_log' = << >>]_vars

\* Another admin's delete_task was refused on a task that has a comment.
C12_Witness ==
    /\ response.op = "delete_task"
    /\ response.result = "unauthorized"
    /\ response.user \in Admins
    /\ TaskExists(response.target)
    /\ tasks[response.target].creator_id # response.user
    /\ \E c \in comments : c.task_id = response.target

----------------------------------------------------------------------------
(* The invariants of the task table. *)

\* C13: at creation the creator of a task is an admin and its assignee is a
\* client, for every client_id a new_task form carries.
C13_CreationRoles ==
    [][(Answers("new_task") /\ response'.result = "created")
       => /\ tasks'[Target].creator_id \in Admins
          /\ tasks'[Target].client_id \in Clients]_vars

\* Every stored task has one of the three statuses.
StatusInRange ==
    \A t \in DOMAIN tasks : tasks[t].status \in {"pending", "in-progress", "completed"}

\* C14: in every state the status of every stored task is pending,
\* in-progress or completed; an update_task_status that carries any other
\* value (none included) writes nothing, whoever sends it, and the assigned
\* client is answered with the invalid-status failure: the task and the
\* notifications are as before and no email is attempted.
C14_StatusInRange ==
    /\ []StatusInRange
    /\ [][Answers("update_task_status") =>
            \A s \in FormStatuses \ {"pending", "in-progress", "completed"} :
               update_task_status(Caller, Target, s)
               => /\ response'.result # "updated"
                  /\ ByAssignee(Caller, Target) => response'.result = "invalid_status"
                  /\ tasks' = tasks
                  /\ notifications' = notifications
                  /\ mail_log' = << >>]_vars

\* The assigned client was refused a value that is no status on a task
\* whose status had been changed before.
C14_Witness ==
    /\ response.op = "update_task_status"
    /\ response.result = "invalid_status"
    /\ tasks[response.target].status = "completed"
    /\ tasks[response.target].client_id = response.user

\* C15: in every state the priority of every stored task is low, medium or
\* high, whatever priority new_task and edit_task were sent.
C15_PriorityInRange ==
    \A t \in DOMAIN tasks : tasks[t].priority \in {"low", "medium", "high"}

----------------------------------------------------------------------------
(* The invariant of the comment table. *)

\* C16: in every state, whatever creations, edits (reassignments included)
\* and comments came before, every stored comment has a content that is not
\* empty and an author who is the creator or the assigned client of its
\* task.
C16_CommentAuthorIsParty ==
    \A c \in comments :
        /\ c.content \notin {Null, ""}
        /\ TaskExists(c.task_id)
        /\ c.user_id \in {tasks[c.task_id].creator_id, tasks[c.task_id].client_id}

----------------------------------------------------------------------------
(* The timestamps of a task. *)

\* C17: in every state updated_at is not before created_at, for every task;
\* new_task sets both to the same value; an update_task_status that changes
\* the status never moves updated_at backward.
C17_Timestamps ==
    /\ [](\A t \in DOMAIN tasks : tasks[t].updated_at >= tasks[t].created_at)
    /\ [][(Answers("new_task") /\ response'.result = "created")
           => tasks'[Target].updated_at = tasks'[Target].created_at]_vars
    /\ [][(Answers("update_task_status") /\ response'.result = "updated")
           => tasks'[Target].updated_at >= tasks[Target].updated_at]_vars

----------------------------------------------------------------------------
(* Access after a reassignment. *)

\* The notifications tell the history of task t: it was assigned to c1, a
\* later edit_task assigned it to c2, and c2 is its client now.
ReassignedTo(t, c1, c2) ==
    /\ TaskExists(t)
    /\ tasks[t].client_id = c2
    /\ \E i, j \in 1..Len(notifications) :
         /\ i < j
         /\ notifications[i].task_id = t
         /\ notifications[i].title \in {"New Task Assigned", "Task Updated"}
         /\ notifications[i].user_id = c1
         /\ notifications[j].task_id = t
         /\ notifications[j].title = "Task Updated"
         /\ notifications[j].user_id = c2

\* C21: access follows the current assignment. Once the creator's edit_task
\* has moved a task from client c1 to client c2, every update_task_status
\* and every add_comment of c1 on it is answered with the authorization
\* failure and leaves the store as it was, and the same requests of c2 pass
\* the check: a status that differs is stored, a comment with a content is
\* added.
C21_AccessFollowsAssignment ==
    [][\A c1 \in Clients : \A c2 \in Clients \ {c1} :
         (/\ Answers("update_task_status") \/ Answers("add_comment")
          /\ ReassignedTo(Target, c1, c2))
         => /\ Caller = c1 =>
                 /\ response'.result = "unauthorized"
                 /\ UNCHANGED store
                 /\ mail_log' = << >>
            /\ Caller = c2 =>
                 /\ response'.result \notin {"unauthorized", "forbidden", "not_found"}
                 /\ Answers("update_task_status") =>
                      \A s \in Statuses \ {tasks[Target].status} :
                         update_task_status(c2, Target, s)
                         => /\ response'.result = "updated"
                            /\ tasks'[Target].status = s
                 /\ Answers("add_comment") =>
                      (add_comment(c2, Target, "C1")
                       => /\ response'.result = "added"
                          /\ \E c \in comments' \ comments :
                               c.user_id = c2 /\ c.task_id = Target)]_vars

\* The first client, whose comment the task still carries, was refused a
\* comment after the task had been reassigned to the second.
C21_Witness ==
    /\ response.op = "add_comment"
    /\ response.result = "unauthorized"
    /\ \E c2 \in Clients \ {response.user} :
         ReassignedTo(response.target, response.user, c2)
    /\ \E c \in comments : c.user_id = response.user /\ c.task_id = response.target

----------------------------------------------------------------------------
(* The notification of a comment and of an attachment. *)

\* The step answers an add_comment or an upload_attachment that was accepted.
AcceptedPost ==
    \/ Answers("add_comment") /\ response'.result = "added"
    \/ Answers("upload_attachment") /\ response'.result = "uploaded"

\* C22: every accepted add_comment and upload_attachment adds exactly one
\* notification, addressed to the other party of the task, the assignee when
\* the creator acts and the creator when the assignee acts, and never to the
\* user who acts, whatever tasks and assignments the store holds.
C22_PostNotifiesOtherParty ==
    [][AcceptedPost =>
         /\ Len(notifications') = Len(notifications) + 1
         /\ SubSeq(notifications', 1, Len(notifications)) = notifications
         /\ LastNotification'.task_id = Target
         /\ LastNotification'.user_id =
               IF Caller = tasks[Target].creator_id THEN tasks[Target].client_id
               ELSE tasks[Target].creator_id
         /\ LastNotification'.user_id # Caller]_vars

====
